---- MODULE Spec2Model ----
(***************************************************************************)
(* A model of llama_cloud/api_utils.py: the retry policy around the page   *)
(* asset fetches, the project / pipeline / retriever resolvers, and the    *)
(* conversion of raw page-screenshot and page-figure records into scored   *)
(* image nodes (serially, and concurrently through run_jobs).              *)
(*                                                                         *)
(* Three specifications share the module:                                  *)
(*   SpecFetch    one call of one of the four decorated fetch functions;   *)
(*   SpecResolve  calls of the four resolve_* functions;                   *)
(*   SpecConv     one call of one of the six conversion functions.         *)
(***************************************************************************)
EXTENDS Integers, Sequences, FiniteSets, TLC

VARIABLES
    fetch,        \* SpecFetch: the fetch call under study (function name and arguments)
    call,         \* SpecFetch: the state of that call inside the tenacity retry loop
    sent,         \* SpecFetch: what httpx_client.send did, one entry per request sent
    res_call,     \* SpecResolve: the resolve_* call last made (name and arguments)
    remote_calls, \* SpecResolve: the remote API calls that call made, in order
    res_ret,      \* SpecResolve: how that call ended (return value or exception)
    issued,       \* SpecResolve: the uuid4 values handed out so far
    ephemeral,    \* SpecResolve: the retrievers returned by persisted = False calls
    conv,         \* SpecConv: the conversion call under study (function name and arguments)
    tasks,        \* SpecConv: the fetch calls it made, by position of the record
    nsent,        \* SpecConv: number of requests sent for each position
    conv_pc,      \* SpecConv: where the conversion is
    image_nodes,  \* SpecConv: the list of scored nodes being built
    conv_ret      \* SpecConv: what the conversion returned or raised

vars == <<fetch, call, sent, res_call, remote_calls, res_ret, issued, ephemeral,
          conv, tasks, nsent, conv_pc, image_nodes, conv_ret>>
fetch_vars == <<fetch, call, sent>>
resolve_vars == <<res_call, remote_calls, res_ret, issued, ephemeral>>
conv_vars == <<conv, tasks, nsent, conv_pc, image_nodes, conv_ret>>

\* Python's None, as a value distinct from every string the model uses.
None == "<None>"

\* None where an object (a Project, a Retriever) is expected.
NoneObj == [is_none |-> TRUE]

\* str(x) inside an f-string.
Str(x) == IF x = None THEN "None" ELSE x

\* Truthiness of an Optional[str]: None and "" are falsy.
Truthy(x) == x # None /\ x # ""

(***************************************************************************)
(* The HTTP collaborator: responses and exceptions of httpx_client.send.   *)
(***************************************************************************)

\* Status codes a response may carry: the edges of 2xx and 5xx and some others.
Statuses == {199, 200, 299, 300, 404, 499, 500, 599, 600}

\* Response bodies (bytes).
Bodies == {<<77, 97, 110, 33, 0>>, <<255>>}

\* Response.text: the body decoded as UTF-8 with errors replaced (a byte
\* below 128 is its own code point, 255 is never valid and becomes U+FFFD).
DecodeByte(b) == IF b < 128 THEN b ELSE 65533
ResponseText(content) == [str |-> [i \in 1..Len(content) |-> DecodeByte(content[i])]]

NoBody == [str |-> <<>>]

ApiError(status_code, body) ==
    [type |-> "ApiError", status_code |-> status_code, body |-> body]

\* Exceptions send itself may raise: a transport error, or (with a response
\* hook or a mocked transport that calls raise_for_status) an HTTPStatusError.
SendExceptions ==
    {[type |-> "ConnectError", status_code |-> 0, body |-> NoBody],
     [type |-> "HTTPStatusError", status_code |-> 503, body |-> NoBody],
     [type |-> "HTTPStatusError", status_code |-> 404, body |-> NoBody]}

SendOutcomes ==
    [kind : {"response"}, status_code : Statuses, content : Bodies]
    \cup {[kind |-> "exception", exc |-> e] : e \in SendExceptions}

(***************************************************************************)
(* Retry policy.                                                           *)
(***************************************************************************)

\* A variant without the upper end of the range, to compare against.
is_retryable_http_error_no_upper(exception) ==
    IF exception.type = "ApiError" THEN 500 <= exception.status_code
    ELSE IF exception.type = "HTTPStatusError" THEN 500 <= exception.status_code
    ELSE FALSE

is_retryable_http_error(exception) ==
    IF exception.type = "ApiError"
    THEN 500 <= exception.status_code /\ exception.status_code < 600
    ELSE IF exception.type = "HTTPStatusError"
    THEN 500 <= exception.status_code /\ exception.status_code < 600
    ELSE FALSE

\* stop=stop_after_attempt(5)
stop_after_attempt == 5

\* reraise=True
reraise == TRUE

Returned(value) == [kind |-> "return", value |-> value]
Raised(exc) == [kind |-> "raise", exc |-> exc]
NoOutcome == [kind |-> "none"]

\* A variant with reraise unset (a RetryError after the last attempt), to
\* compare against.
retry_on_failure_wrapping(attempt_number, outcome) ==
    IF outcome.kind = "return" THEN [pc |-> "returned", outcome |-> outcome]
    ELSE IF ~is_retryable_http_error(outcome.exc)
    THEN [pc |-> "raised", outcome |-> outcome]
    ELSE IF attempt_number >= stop_after_attempt
    THEN [pc |-> "raised",
          outcome |-> Raised([type |-> "RetryError", status_code |-> 0,
                              body |-> NoBody])]
    ELSE [pc |-> "sleeping", outcome |-> outcome]

\* What tenacity does with the outcome of attempt number attempt_number:
\* hand back the return value; let a non-retryable exception through; stop
\* after the last attempt (re-raising the last exception itself when reraise
\* is set, a RetryError around it otherwise); or sleep and try again.
retry_on_failure(attempt_number, outcome) ==
    IF outcome.kind = "return" THEN [pc |-> "returned", outcome |-> outcome]
    ELSE IF ~is_retryable_http_error(outcome.exc)
    THEN [pc |-> "raised", outcome |-> outcome]
    ELSE IF attempt_number >= stop_after_attempt
    THEN [pc |-> "raised",
          outcome |-> IF reraise THEN outcome
                      ELSE Raised([type |-> "RetryError", status_code |-> 0,
                                   body |-> NoBody])]
    ELSE [pc |-> "sleeping", outcome |-> outcome]

(***************************************************************************)
(* Asset fetcher.                                                          *)
(***************************************************************************)

\* remove_none_from_dict({"project_id": project_id})
Params(project_id) ==
    IF project_id = None THEN <<>> ELSE <<<<"project_id", project_id>>>>

_build_get_page_screenshot_request(file_id, page_index, project_id) ==
    [method |-> "GET",
     path |-> <<"api/v1/files/", file_id, "/page_screenshots/", page_index>>,
     params |-> Params(project_id),
     timeout |-> 60]

_build_get_page_figure_request(file_id, page_index, figure_name, project_id) ==
    [method |-> "GET",
     path |-> <<"api/v1/files/", file_id, "/page-figures/", page_index, "/",
                figure_name>>,
     params |-> Params(project_id),
     timeout |-> 60]

ScreenshotFns == {"get_page_screenshot", "aget_page_screenshot"}
FigureFns == {"get_page_figure", "aget_page_figure"}
FetchFns == ScreenshotFns \cup FigureFns

\* The request one attempt of the fetch function fn builds from its arguments.
BuildRequest(fn, a) ==
    IF fn \in ScreenshotFns
    THEN _build_get_page_screenshot_request(a.file_id, a.page_index, a.project_id)
    ELSE _build_get_page_figure_request(a.file_id, a.page_index, a.figure_name,
                                         a.project_id)

\* The body of the four fetch functions after send: the response's content
\* for a 2xx status, an ApiError with the status and text otherwise; an
\* exception of send passes through.
get_page_asset(o) ==
    IF o.kind = "exception" THEN Raised(o.exc)
    ELSE IF 200 <= o.status_code /\ o.status_code < 300
    THEN Returned(o.content)
    ELSE Raised(ApiError(o.status_code, ResponseText(o.content)))

(***************************************************************************)
(* One decorated fetch call as a state machine:                            *)
(*   ready -> awaiting (request built and sent) -> returned | raised |     *)
(*   sleeping (backoff) -> ready (next attempt).                           *)
(***************************************************************************)

NoRequest == [method |-> "none"]

NewCall(fn, a) ==
    [fn |-> fn, args |-> a, pc |-> "ready", attempt_number |-> 1,
     request |-> NoRequest, outcome |-> NoOutcome]

CallSend(c) ==
    [c EXCEPT !.pc = "awaiting", !.request = BuildRequest(c.fn, c.args)]

CallReceive(c, o) ==
    LET r == retry_on_failure(c.attempt_number, get_page_asset(o))
    IN  [c EXCEPT !.pc = r.pc, !.outcome = r.outcome]

CallWake(c) ==
    [c EXCEPT !.pc = "ready", !.attempt_number = c.attempt_number + 1]

\* Arguments of the fetch calls.
FileIds == {"f1", "f2"}
FetchArgs ==
    [file_id : FileIds, page_index : {0}, figure_name : {"fig"},
     project_id : {"p1", None}]

IdleFetch == [fn |-> "none"]
IdleCall == [pc |-> "idle"]

FetchIdle ==
    /\ fetch = IdleFetch
    /\ call = IdleCall
    /\ sent = <<>>

FetchSend ==
    /\ call.pc = "ready"
    /\ call' = CallSend(call)
    /\ UNCHANGED <<fetch, sent>>
    /\ UNCHANGED <<resolve_vars, conv_vars>>

FetchReceive ==
    /\ call.pc = "awaiting"
    /\ \E o \in SendOutcomes :
          /\ call' = CallReceive(call, o)
          /\ sent' = Append(sent, o)
    /\ UNCHANGED fetch
    /\ UNCHANGED <<resolve_vars, conv_vars>>

FetchWake ==
    /\ call.pc = "sleeping"
    /\ call' = CallWake(call)
    /\ UNCHANGED <<fetch, sent>>
    /\ UNCHANGED <<resolve_vars, conv_vars>>

(***************************************************************************)
(* Entity resolver.  The remote service is a collaborator: what it answers *)
(* to a get-by-id or a list/search call is chosen by the environment.      *)
(***************************************************************************)

Project(id, name) == [id |-> id, name |-> name]
Pipeline(id, name, project_id) == [id |-> id, name |-> name, project_id |-> project_id]
Retriever(id, project_id, name, pipelines) ==
    [id |-> id, project_id |-> project_id, name |-> name, pipelines |-> pipelines]

\* Longest list a list/search call answers with.
MaxListed == 2

\* Number of uuid4 values the model can hand out.
MaxUuids == 2

SeqsUpTo(S, n) == UNION {[1..k -> S] : k \in 0..n}

ProjectPool == {Project("p1", "n1"), Project("p2", "n1")}
PipelinePool == {Pipeline("pl1", "n1", "p1"), Pipeline("pl2", "n1", "p2")}
RetrieverPool ==
    {Retriever("r1", "p1", "n1", <<"pl1">>),
     Retriever("r2", "p1", "n1-old", <<>>),
     Retriever("r3", "p1", "n1", <<>>)}

\* Answers of the remote service.
NotFoundAnswer == [found |-> FALSE]
GetProjectAnswers == {NotFoundAnswer} \cup [found : {TRUE}, name : {"n1", "n2"}]
GetPipelineAnswers ==
    {NotFoundAnswer} \cup [found : {TRUE}, name : {"n1"}, project_id : {"p1", "p2"}]
GetRetrieverAnswers ==
    {NotFoundAnswer} \cup [found : {TRUE}, name : {"n1"}, pipelines : {<<"pl1">>}]
ProjectLists == SeqsUpTo(ProjectPool, MaxListed)
PipelineLists == SeqsUpTo(PipelinePool, MaxListed)
RetrieverLists == SeqsUpTo(RetrieverPool, MaxListed)

\* The error the generated client raises when an id is unknown remotely.
NotFound == ApiError(404, NoBody)

ValueError(message) == [type |-> "ValueError", message |-> message]
AttributeError(message) == [type |-> "AttributeError", message |-> message]

\* uuid.uuid4(): a value that was not handed out before.
UuidNames == <<"uuid-1", "uuid-2", "uuid-3", "uuid-4", "uuid-5">>
UuidPool == {UuidNames[i] : i \in 1..MaxUuids}

\* A resolve function's run: the remote calls it made and how it ended.
Run(calls, ret) == [calls |-> calls, ret |-> ret]

\* A variant that looks at the id before the persisted flag, to compare
\* against.
resolve_retriever_ignoring_persisted(project, retriever_name, retriever_id, persisted, get_answer, listed, uuid) ==
    IF Truthy(retriever_id)
    THEN Run(<<[api |-> "get_retriever", retriever_id |-> retriever_id,
                project_id |-> project.id]>>,
             IF get_answer.found
             THEN Returned(Retriever(retriever_id, project.id, get_answer.name,
                                     get_answer.pipelines))
             ELSE Raised(NotFound))
    ELSE Run(<<>>, Returned(Retriever(uuid, project.id, retriever_name, <<>>)))

\* A variant that looks at the name before the id, to compare against.
resolve_retriever_name_first(project, retriever_name, retriever_id, persisted, get_answer, listed, uuid) ==
    IF ~persisted
    THEN Run(<<>>, Returned(Retriever(uuid, project.id, retriever_name, <<>>)))
    ELSE IF Truthy(retriever_name)
    THEN LET matches == {i \in 1..Len(listed) : listed[i].name = retriever_name}
         IN  Run(<<[api |-> "list_retrievers", project_id |-> project.id,
                    name |-> retriever_name]>>,
                 IF matches = {} THEN Returned(NoneObj)
                 ELSE Returned(listed[CHOOSE i \in matches :
                                         \A j \in matches : i <= j]))
    ELSE IF Truthy(retriever_id)
    THEN Run(<<[api |-> "get_retriever", retriever_id |-> retriever_id,
                project_id |-> project.id]>>,
             IF get_answer.found
             THEN Returned(Retriever(retriever_id, project.id, get_answer.name,
                                     get_answer.pipelines))
             ELSE Raised(NotFound))
    ELSE Run(<<>>, Returned(NoneObj))

resolve_retriever(project, retriever_name, retriever_id, persisted, get_answer, listed, uuid) ==
    IF ~persisted
    THEN Run(<<>>, Returned(Retriever(uuid, project.id, retriever_name, <<>>)))
    ELSE IF Truthy(retriever_id)
    THEN Run(<<[api |-> "get_retriever", retriever_id |-> retriever_id,
                project_id |-> project.id]>>,
             IF get_answer.found
             THEN Returned(Retriever(retriever_id, project.id, get_answer.name,
                                     get_answer.pipelines))
             ELSE Raised(NotFound))
    ELSE IF Truthy(retriever_name)
    THEN LET matches == {i \in 1..Len(listed) : listed[i].name = retriever_name}
         IN  Run(<<[api |-> "list_retrievers", project_id |-> project.id,
                    name |-> retriever_name]>>,
                 IF matches = {} THEN Returned(NoneObj)
                 ELSE Returned(listed[CHOOSE i \in matches :
                                         \A j \in matches : i <= j]))
    ELSE Run(<<>>, Returned(NoneObj))

\* A variant that returns the first of several listed projects, to compare
\* against.
resolve_project_first_of_many(project_name, project_id, organization_id, get_answer, projects) ==
    IF project_id # None
    THEN Run(<<[api |-> "get_project", project_id |-> project_id]>>,
             IF get_answer.found
             THEN Returned(Project(project_id, get_answer.name))
             ELSE Raised(NotFound))
    ELSE Run(<<[api |-> "list_projects", project_name |-> project_name,
                organization_id |-> organization_id]>>,
             IF Len(projects) = 0
             THEN Raised(ValueError(<<"No project found with name ",
                                      Str(project_name)>>))
             ELSE Returned(projects[1]))

resolve_project(project_name, project_id, organization_id, get_answer, projects) ==
    IF project_id # None
    THEN Run(<<[api |-> "get_project", project_id |-> project_id]>>,
             IF get_answer.found
             THEN Returned(Project(project_id, get_answer.name))
             ELSE Raised(NotFound))
    ELSE Run(<<[api |-> "list_projects", project_name |-> project_name,
                organization_id |-> organization_id]>>,
             IF Len(projects) = 0
             THEN Raised(ValueError(<<"No project found with name ",
                                      Str(project_name)>>))
             ELSE IF Len(projects) > 1
             THEN Raised(ValueError(<<"Multiple projects found with name ",
                                      Str(project_name),
                                      ". Please specify organization_id.">>))
             ELSE Returned(projects[1]))

\* A variant that returns None for an empty search result, to compare
\* against.
resolve_pipeline_empty_is_none(pipeline_id, project, pipeline_name, get_answer, pipelines) ==
    IF pipeline_id # None
    THEN Run(<<[api |-> "get_pipeline", pipeline_id |-> pipeline_id]>>,
             IF get_answer.found
             THEN Returned(Pipeline(pipeline_id, get_answer.name,
                                    get_answer.project_id))
             ELSE Raised(NotFound))
    ELSE IF project = NoneObj
    THEN Run(<<>>, Raised(AttributeError(
                 <<"'NoneType' object has no attribute 'id'">>)))
    ELSE Run(<<[api |-> "search_pipelines", project_id |-> project.id,
                pipeline_name |-> pipeline_name, pipeline_type |-> "MANAGED"]>>,
             IF Len(pipelines) = 0 THEN Returned(NoneObj)
             ELSE IF Len(pipelines) > 1
             THEN Raised(ValueError(<<"Multiple pipelines found with name ",
                     Str(pipeline_name), " in project ", Str(project.name)>>))
             ELSE Returned(pipelines[1]))

resolve_pipeline(pipeline_id, project, pipeline_name, get_answer, pipelines) ==
    IF pipeline_id # None
    THEN Run(<<[api |-> "get_pipeline", pipeline_id |-> pipeline_id]>>,
             IF get_answer.found
             THEN Returned(Pipeline(pipeline_id, get_answer.name,
                                    get_answer.project_id))
             ELSE Raised(NotFound))
    ELSE IF project = NoneObj
    THEN Run(<<>>, Raised(AttributeError(
                 <<"'NoneType' object has no attribute 'id'">>)))
    ELSE Run(<<[api |-> "search_pipelines", project_id |-> project.id,
                pipeline_name |-> pipeline_name, pipeline_type |-> "MANAGED"]>>,
             IF Len(pipelines) = 0
             THEN Raised(ValueError(<<"Unknown index name ", Str(pipeline_name),
                     ". Please confirm an index with this name exists.">>))
             ELSE IF Len(pipelines) > 1
             THEN Raised(ValueError(<<"Multiple pipelines found with name ",
                     Str(pipeline_name), " in project ", Str(project.name)>>))
             ELSE Returned(pipelines[1]))

\* A variant that keeps the caller's project id after fetching the pipeline,
\* to compare against.
resolve_project_and_pipeline_keeping_project_id(pipeline_name, pipeline_id, project_name, project_id, organization_id, get_pipeline_answer, get_project_answer, projects, pipelines) ==
    LET by_id == resolve_pipeline(pipeline_id, NoneObj, None, get_pipeline_answer,
                                  pipelines)
        proj == resolve_project(project_name, project_id, organization_id,
                                get_project_answer, projects)
    IN  IF pipeline_id # None /\ by_id.ret.kind = "raise" THEN by_id
        ELSE IF proj.ret.kind = "raise"
        THEN Run((IF pipeline_id # None THEN by_id.calls ELSE <<>>) \o proj.calls,
                 proj.ret)
        ELSE IF pipeline_id # None
        THEN Run(by_id.calls \o proj.calls,
                 Returned(<<proj.ret.value, by_id.ret.value>>))
        ELSE LET by_name == resolve_pipeline(None, proj.ret.value, pipeline_name,
                                             get_pipeline_answer, pipelines)
             IN  Run(proj.calls \o by_name.calls,
                     IF by_name.ret.kind = "raise" THEN by_name.ret
                     ELSE Returned(<<proj.ret.value, by_name.ret.value>>))

resolve_project_and_pipeline(pipeline_name, pipeline_id, project_name, project_id, organization_id, get_pipeline_answer, get_project_answer, projects, pipelines) ==
    LET by_id == resolve_pipeline(pipeline_id, NoneObj, None, get_pipeline_answer,
                                  pipelines)
        project_id_2 == IF pipeline_id # None THEN by_id.ret.value.project_id
                        ELSE project_id
        proj == resolve_project(project_name, project_id_2, organization_id,
                                get_project_answer, projects)
    IN  IF pipeline_id # None /\ by_id.ret.kind = "raise" THEN by_id
        ELSE IF proj.ret.kind = "raise"
        THEN Run((IF pipeline_id # None THEN by_id.calls ELSE <<>>) \o proj.calls,
                 proj.ret)
        ELSE IF pipeline_id # None
        THEN Run(by_id.calls \o proj.calls,
                 Returned(<<proj.ret.value, by_id.ret.value>>))
        ELSE LET by_name == resolve_pipeline(None, proj.ret.value, pipeline_name,
                                             get_pipeline_answer, pipelines)
             IN  Run(proj.calls \o by_name.calls,
                     IF by_name.ret.kind = "raise" THEN by_name.ret
                     ELSE Returned(<<proj.ret.value, by_name.ret.value>>))

\* Arguments of the resolve calls.
ProjectNames == {None, "n1"}
ProjectIdArgs == {None, "", "p1", "p2"}
OrganizationIds == {None, "org1"}
PipelineNames == {None, "n1"}
PipelineIdArgs == {None, "", "pl1"}
ProjectArgs == ProjectPool \cup {NoneObj}
RetrieverNames == {None, "", "n1"}
RetrieverIdArgs == {None, "", "r1"}

NoResolveCall == [fn |-> "none"]

ResolveIdle ==
    /\ res_call = NoResolveCall
    /\ remote_calls = <<>>
    /\ res_ret = NoOutcome
    /\ issued = {}
    /\ ephemeral = <<>>

\* The answers the remote service may give to a call; a call that is not
\* made gets no answer.
Asked(made, answers) == IF made THEN answers ELSE {NotFoundAnswer}
Listed(made, lists) == IF made THEN lists ELSE {<<>>}

\* A call is made when the caller holds no unread result.
ResolveProject ==
    /\ res_call = NoResolveCall
    /\ \E project_name \in ProjectNames, project_id \in ProjectIdArgs,
          organization_id \in OrganizationIds :
       \E get_answer \in Asked(project_id # None, GetProjectAnswers),
          projects \in Listed(project_id = None, ProjectLists) :
          LET r == resolve_project(project_name, project_id, organization_id,
                                   get_answer, projects)
          IN  /\ res_call' = [fn |-> "resolve_project",
                              project_name |-> project_name,
                              project_id |-> project_id,
                              organization_id |-> organization_id,
                              listed |-> projects]
              /\ remote_calls' = r.calls
              /\ res_ret' = r.ret
              /\ UNCHANGED <<issued, ephemeral>>
    /\ UNCHANGED <<fetch_vars, conv_vars>>

ResolvePipeline ==
    /\ res_call = NoResolveCall
    /\ \E pipeline_id \in PipelineIdArgs, project \in ProjectArgs,
          pipeline_name \in PipelineNames :
       \E get_answer \in Asked(pipeline_id # None, GetPipelineAnswers),
          pipelines \in Listed(pipeline_id = None /\ project # NoneObj,
                               PipelineLists) :
          LET r == resolve_pipeline(pipeline_id, project, pipeline_name,
                                    get_answer, pipelines)
          IN  /\ res_call' = [fn |-> "resolve_pipeline",
                              pipeline_id |-> pipeline_id,
                              project |-> project,
                              pipeline_name |-> pipeline_name,
                              listed |-> pipelines]
              /\ remote_calls' = r.calls
              /\ res_ret' = r.ret
              /\ UNCHANGED <<issued, ephemeral>>
    /\ UNCHANGED <<fetch_vars, conv_vars>>

ResolveProjectAndPipeline ==
    /\ res_call = NoResolveCall
    /\ \E pipeline_name \in PipelineNames, pipeline_id \in PipelineIdArgs,
          project_name \in ProjectNames, project_id \in ProjectIdArgs,
          organization_id \in OrganizationIds :
       \E get_pipeline_answer \in Asked(pipeline_id # None, GetPipelineAnswers),
          get_project_answer \in Asked(pipeline_id # None \/ project_id # None,
                                       GetProjectAnswers),
          projects \in Listed(pipeline_id = None /\ project_id = None,
                              ProjectLists),
          pipelines \in Listed(pipeline_id = None, PipelineLists) :
          LET r == resolve_project_and_pipeline(
                       pipeline_name, pipeline_id, project_name, project_id,
                       organization_id, get_pipeline_answer, get_project_answer,
                       projects, pipelines)
          IN  /\ res_call' = [fn |-> "resolve_project_and_pipeline",
                              pipeline_name |-> pipeline_name,
                              pipeline_id |-> pipeline_id,
                              project_name |-> project_name,
                              project_id |-> project_id,
                              organization_id |-> organization_id,
                              fetched |-> get_pipeline_answer,
                              listed_projects |-> projects,
                              listed |-> pipelines]
              /\ remote_calls' = r.calls
              /\ res_ret' = r.ret
              /\ UNCHANGED <<issued, ephemeral>>
    /\ UNCHANGED <<fetch_vars, conv_vars>>

ResolveRetriever ==
    /\ res_call = NoResolveCall
    /\ \E project \in ProjectPool, retriever_name \in RetrieverNames,
          retriever_id \in RetrieverIdArgs, persisted \in BOOLEAN :
       \E get_answer \in Asked(Truthy(retriever_id), GetRetrieverAnswers),
          listed \in Listed(~Truthy(retriever_id) /\ Truthy(retriever_name),
                            RetrieverLists),
          uuid \in (IF persisted THEN {"unused"} ELSE UuidPool \ issued) :
          LET r == resolve_retriever(project, retriever_name, retriever_id,
                                     persisted, get_answer, listed, uuid)
              generated == r.ret.kind = "return" /\ r.ret.value # NoneObj
                           /\ r.ret.value.id = uuid
          IN  /\ res_call' = [fn |-> "resolve_retriever", project |-> project,
                              retriever_name |-> retriever_name,
                              retriever_id |-> retriever_id,
                              persisted |-> persisted, listed |-> listed]
              /\ remote_calls' = r.calls
              /\ res_ret' = r.ret
              /\ issued' = IF generated THEN issued \cup {uuid} ELSE issued
              /\ ephemeral' = IF ~persisted /\ r.ret.kind = "return"
                              THEN Append(ephemeral, r.ret.value.id)
                              ELSE ephemeral
    /\ UNCHANGED <<fetch_vars, conv_vars>>

\* The caller takes the result and is ready for its next call.
ResolveNext ==
    /\ res_call # NoResolveCall
    /\ res_call' = NoResolveCall
    /\ remote_calls' = <<>>
    /\ res_ret' = NoOutcome
    /\ UNCHANGED <<issued, ephemeral>>
    /\ UNCHANGED <<fetch_vars, conv_vars>>

(***************************************************************************)
(* Result adapter.                                                         *)
(***************************************************************************)

\* base64.b64encode(bytes).decode("utf-8"): a string over the base64
\* alphabet, four characters for every three bytes, padded with "=".
Alphabet ==
    <<"A", "B", "C", "D", "E", "F", "G", "H", "I", "J", "K", "L", "M",
      "N", "O", "P", "Q", "R", "S", "T", "U", "V", "W", "X", "Y", "Z",
      "a", "b", "c", "d", "e", "f", "g", "h", "i", "j", "k", "l", "m",
      "n", "o", "p", "q", "r", "s", "t", "u", "v", "w", "x", "y", "z",
      "0", "1", "2", "3", "4", "5", "6", "7", "8", "9", "+", "/">>

RECURSIVE b64encode(_)
b64encode(b) ==
    IF Len(b) = 0 THEN <<>>
    ELSE IF Len(b) = 1
    THEN LET n == b[1] * 16
         IN  <<Alphabet[(n \div 64) + 1], Alphabet[(n % 64) + 1], "=", "=">>
    ELSE IF Len(b) = 2
    THEN LET n == (b[1] * 256 + b[2]) * 4
         IN  <<Alphabet[(n \div 4096) + 1], Alphabet[((n \div 64) % 64) + 1],
               Alphabet[(n % 64) + 1], "=">>
    ELSE LET n == b[1] * 65536 + b[2] * 256 + b[3]
         IN  <<Alphabet[(n \div 262144) + 1], Alphabet[((n \div 4096) % 64) + 1],
               Alphabet[((n \div 64) % 64) + 1], Alphabet[(n % 64) + 1]>>
             \o b64encode(SubSeq(b, 4, Len(b)))

\* A raw record's metadata: None or a dict (a function from keys to values).
NoneDict == [is_none |-> TRUE]
Dict(d) == [is_none |-> FALSE, items |-> d]
EmptyDict == <<>>

\* metadata or {}
OrEmpty(metadata) == IF metadata.is_none THEN EmptyDict ELSE metadata.items

\* {**base, **derived}: the keys of derived win.
Merge(base, derived) ==
    [k \in DOMAIN base \cup DOMAIN derived |->
        IF k \in DOMAIN derived THEN derived[k] ELSE base[k]]

ImageNode(image, metadata) == [image |-> image, metadata |-> metadata]
NodeWithScore(node, score) == [node |-> node, score |-> score]

\* The scored node built from a raw screenshot record and the bytes fetched.
screenshot_node(image_bytes, raw_image_node) ==
    NodeWithScore(
        ImageNode(b64encode(image_bytes),
                  Merge(OrEmpty(raw_image_node.metadata),
                        [file_id |-> raw_image_node.file_id,
                         page_index |-> raw_image_node.page_index])),
        raw_image_node.score)

\* The scored node built from a raw figure record and the bytes fetched.
figure_node(figure_bytes, raw_figure_node) ==
    NodeWithScore(
        ImageNode(b64encode(figure_bytes),
                  Merge(OrEmpty(raw_figure_node.metadata),
                        [file_id |-> raw_figure_node.file_id,
                         page_index |-> raw_figure_node.page_index,
                         figure_name |-> raw_figure_node.figure_name])),
        raw_figure_node.score)

SyncConvFns == {"page_screenshot_nodes_to_node_with_score",
                "image_nodes_to_node_with_score",
                "page_figure_nodes_to_node_with_score"}
AsyncConvFns == {"apage_screenshot_nodes_to_node_with_score",
                 "aimage_nodes_to_node_with_score",
                 "apage_figure_nodes_to_node_with_score"}
ConvFns == SyncConvFns \cup AsyncConvFns
LegacyFns == {"image_nodes_to_node_with_score", "aimage_nodes_to_node_with_score"}
FigureConvFns == {"page_figure_nodes_to_node_with_score",
                  "apage_figure_nodes_to_node_with_score"}

\* The function a legacy alias hands its arguments to.
Successor(fn) ==
    IF fn = "image_nodes_to_node_with_score"
    THEN "page_screenshot_nodes_to_node_with_score"
    ELSE "apage_screenshot_nodes_to_node_with_score"

\* The fetch function a conversion calls for each record.
FetchFnOf(fn) ==
    CASE fn = "page_screenshot_nodes_to_node_with_score" -> "get_page_screenshot"
      [] fn = "page_figure_nodes_to_node_with_score" -> "get_page_figure"
      [] fn = "apage_screenshot_nodes_to_node_with_score" -> "aget_page_screenshot"
      [] fn = "apage_figure_nodes_to_node_with_score" -> "aget_page_figure"

NodeOf(fn, bytes, raw_node) ==
    IF fn \in FigureConvFns THEN figure_node(bytes, raw_node)
    ELSE screenshot_node(bytes, raw_node)

\* A variant that pairs the results in reverse, to compare against.
zip_nodes_reversed(fn, bytes_list, raw_nodes) ==
    LET n == IF Len(bytes_list) < Len(raw_nodes) THEN Len(bytes_list)
             ELSE Len(raw_nodes)
    IN  [i \in 1..n |-> NodeOf(fn, bytes_list[n + 1 - i], raw_nodes[i])]

\* for bytes, raw_node in zip(bytes_list, raw_nodes): one node per pair.
zip_nodes(fn, bytes_list, raw_nodes) ==
    LET n == IF Len(bytes_list) < Len(raw_nodes) THEN Len(bytes_list)
             ELSE Len(raw_nodes)
    IN  [i \in 1..n |-> NodeOf(fn, bytes_list[i], raw_nodes[i])]

\* Raw records: None or a list.
NoneList == [is_none |-> TRUE, items |-> <<>>]
List(items) == [is_none |-> FALSE, items |-> items]

\* A variant that tests for the empty list only, to compare against.
Falsy_empty_list_only(raw_nodes) ==
    ~raw_nodes.is_none /\ Len(raw_nodes.items) = 0

\* not raw_image_nodes
Falsy(raw_nodes) == raw_nodes.is_none \/ Len(raw_nodes.items) = 0

\* Longest list of raw records converted.
MaxRecords == 2

RecordPool ==
    {[file_id |-> "f1", page_index |-> 0, figure_name |-> "fig",
      metadata |-> NoneDict, score |-> 7],
     [file_id |-> "f2", page_index |-> 1, figure_name |-> "fig",
      metadata |-> Dict([file_id |-> "stale", k |-> "v"]), score |-> 3]}

RawNodeArgs == {NoneList} \cup {List(l) : l \in SeqsUpTo(RecordPool, MaxRecords)}

\* What the server answers during a conversion.
ConvOutcomes ==
    [kind : {"response"}, status_code : {200}, content : Bodies]
    \cup [kind : {"response"}, status_code : {404, 500}, content : {<<255>>}]

\* run_jobs: the number of jobs that may run at once.
NumWorkers == 2

N == Len(conv.raw_nodes.items)

FetchArgsOf(raw_node, project_id) ==
    [file_id |-> raw_node.file_id, page_index |-> raw_node.page_index,
     figure_name |-> raw_node.figure_name, project_id |-> project_id]

\* The calls of the fetch function, one per record, none started yet.
MakeTasks(fn, raw_nodes, project_id) ==
    [i \in 1..Len(raw_nodes) |->
        [NewCall(FetchFnOf(fn), FetchArgsOf(raw_nodes[i], project_id))
            EXCEPT !.pc = "pending"]]

Active(i) == tasks[i].pc \in {"awaiting", "sleeping"}

IdleConv == [called |-> "none"]

ConvIdle ==
    /\ conv = IdleConv
    /\ tasks = <<>>
    /\ nsent = <<>>
    /\ conv_pc = "idle"
    /\ image_nodes = <<>>
    /\ conv_ret = NoOutcome

\* The function that does the work: the one called, or an alias's successor.
WorkFn == IF conv.called \in LegacyFns THEN Successor(conv.called)
          ELSE conv.called

\* if not raw_nodes: return []   (in the function called)
ConvShortCircuit ==
    /\ conv_pc = "called"
    /\ Falsy(conv.raw_nodes)
    /\ conv_pc' = "returned"
    /\ conv_ret' = Returned(<<>>)
    /\ UNCHANGED <<conv, tasks, nsent, image_nodes>>
    /\ UNCHANGED <<fetch_vars, resolve_vars>>

\* A legacy alias hands a non-empty list to its successor.
ConvDelegate ==
    /\ conv_pc = "called"
    /\ conv.called \in LegacyFns
    /\ ~Falsy(conv.raw_nodes)
    /\ conv_pc' = "entered"
    /\ UNCHANGED <<conv, tasks, nsent, image_nodes, conv_ret>>
    /\ UNCHANGED <<fetch_vars, resolve_vars>>

\* The successor (or the function called directly) passes its own check and
\* prepares one fetch call per record: the synchronous loop makes them one
\* after the other, the asynchronous one hands them all to run_jobs.
ConvBegin ==
    /\ \/ conv_pc = "called" /\ conv.called \notin LegacyFns
       \/ conv_pc = "entered"
    /\ ~Falsy(conv.raw_nodes)
    /\ IF conv.raw_nodes.is_none
       THEN \* iterating over None
            /\ conv_pc' = "raised"
            /\ conv_ret' = Raised([type |-> "TypeError"])
            /\ UNCHANGED <<tasks, nsent>>
       ELSE /\ tasks' = MakeTasks(WorkFn, conv.raw_nodes.items, conv.project_id)
            /\ nsent' = [i \in 1..N |-> 0]
            /\ conv_pc' = IF WorkFn \in SyncConvFns THEN "looping" ELSE "gathering"
            /\ UNCHANGED conv_ret
    /\ UNCHANGED <<conv, image_nodes>>
    /\ UNCHANGED <<fetch_vars, resolve_vars>>

\* The synchronous loop: the record it is at is the first whose fetch has
\* not returned.
Cur == CHOOSE i \in 1..N : tasks[i].pc # "returned"
                           /\ \A j \in 1..(i - 1) : tasks[j].pc = "returned"

SyncSend ==
    /\ conv_pc = "looping"
    /\ tasks[Cur].pc \in {"pending", "ready"}
    /\ tasks' = [tasks EXCEPT ![Cur] = CallSend(tasks[Cur])]
    /\ nsent' = [nsent EXCEPT ![Cur] = nsent[Cur] + 1]
    /\ UNCHANGED <<conv, conv_pc, image_nodes, conv_ret>>
    /\ UNCHANGED <<fetch_vars, resolve_vars>>

\* The response arrives.  A returned fetch appends its node and the loop
\* moves on (or the function returns, after the last record); a raised one
\* ends the conversion with that exception.
SyncReceive ==
    /\ conv_pc = "looping"
    /\ tasks[Cur].pc = "awaiting"
    /\ \E o \in ConvOutcomes :
          LET c == CallReceive(tasks[Cur], o)
              nodes == Append(image_nodes,
                              NodeOf(WorkFn, c.outcome.value,
                                     conv.raw_nodes.items[Cur]))
          IN  /\ tasks' = [tasks EXCEPT ![Cur] = c]
              /\ image_nodes' = IF c.pc = "returned" THEN nodes ELSE image_nodes
              /\ conv_pc' = IF c.pc = "returned" /\ Cur = N THEN "returned"
                            ELSE IF c.pc = "raised" THEN "raised"
                            ELSE conv_pc
              /\ conv_ret' = IF c.pc = "returned" /\ Cur = N THEN Returned(nodes)
                             ELSE IF c.pc = "raised" THEN c.outcome
                             ELSE conv_ret
    /\ UNCHANGED <<conv, nsent>>
    /\ UNCHANGED <<fetch_vars, resolve_vars>>

SyncWake ==
    /\ conv_pc = "looping"
    /\ tasks[Cur].pc = "sleeping"
    /\ tasks' = [tasks EXCEPT ![Cur] = CallWake(tasks[Cur])]
    /\ UNCHANGED <<conv, nsent, conv_pc, image_nodes, conv_ret>>
    /\ UNCHANGED <<fetch_vars, resolve_vars>>

\* run_jobs: a job starts when fewer than NumWorkers jobs hold the semaphore.
\* Jobs keep running after gather has passed a first exception on.  The jobs
\* run on one event loop: a step of a job runs from one suspension (waiting
\* for the semaphore, for a response, for the backoff to pass) to the next.
JobsRun == conv_pc \in {"gathering", "raised"} /\ WorkFn \in AsyncConvFns

\* Each job is its own call of the decorated fetch function, with its own
\* retry state: a step of job i changes the state of job i alone.
JobsAfterStart(jobs, i) == [jobs EXCEPT ![i] = CallSend(jobs[i])]

JobsAfterReceive(jobs, i, o) == [jobs EXCEPT ![i] = CallReceive(jobs[i], o)]

\* A variant with one attempt counter shared by the jobs, to compare against.
JobsAfterWake_shared_counter(jobs, i) ==
    [j \in DOMAIN jobs |->
        IF j = i THEN CallSend(CallWake(jobs[j]))
        ELSE [jobs[j] EXCEPT !.attempt_number = jobs[j].attempt_number + 1]]

JobsAfterWake(jobs, i) == [jobs EXCEPT ![i] = CallSend(CallWake(jobs[i]))]

\* The job gets the semaphore, builds its request and sends it.
JobStart(i) ==
    /\ JobsRun
    /\ tasks[i].pc = "pending"
    /\ Cardinality({j \in 1..N : Active(j)}) < NumWorkers
    /\ tasks' = JobsAfterStart(tasks, i)
    /\ nsent' = [nsent EXCEPT ![i] = nsent[i] + 1]
    /\ UNCHANGED <<conv, conv_pc, image_nodes, conv_ret>>
    /\ UNCHANGED <<fetch_vars, resolve_vars>>

\* The response arrives: the job returns, raises, or starts its backoff.
JobReceive(i) ==
    /\ JobsRun
    /\ tasks[i].pc = "awaiting"
    /\ \E o \in ConvOutcomes : tasks' = JobsAfterReceive(tasks, i, o)
    /\ UNCHANGED <<conv, nsent, conv_pc, image_nodes, conv_ret>>
    /\ UNCHANGED <<fetch_vars, resolve_vars>>

\* The backoff has passed: the next attempt builds its request and sends it.
JobWake(i) ==
    /\ JobsRun
    /\ tasks[i].pc = "sleeping"
    /\ tasks' = JobsAfterWake(tasks, i)
    /\ nsent' = [nsent EXCEPT ![i] = nsent[i] + 1]
    /\ UNCHANGED <<conv, conv_pc, image_nodes, conv_ret>>
    /\ UNCHANGED <<fetch_vars, resolve_vars>>

\* asyncio.gather passes an exception of a job on to the conversion, which
\* ends with it.
GatherRaise ==
    /\ conv_pc = "gathering"
    /\ \E i \in 1..N :
          /\ tasks[i].pc = "raised"
          /\ conv_ret' = tasks[i].outcome
    /\ conv_pc' = "raised"
    /\ UNCHANGED <<conv, tasks, nsent, image_nodes>>
    /\ UNCHANGED <<fetch_vars, resolve_vars>>

\* run_jobs: the results of the jobs, in the order of the jobs.
run_jobs(jobs) == [i \in 1..Len(jobs) |-> jobs[i].outcome.value]

\* All jobs returned: the results are paired with the records and the nodes
\* built.
GatherDone ==
    /\ conv_pc = "gathering"
    /\ \A i \in 1..N : tasks[i].pc = "returned"
    /\ LET nodes == zip_nodes(WorkFn, run_jobs(tasks), conv.raw_nodes.items)
       IN  /\ image_nodes' = nodes
           /\ conv_ret' = Returned(nodes)
    /\ conv_pc' = "returned"
    /\ UNCHANGED <<conv, tasks, nsent>>
    /\ UNCHANGED <<fetch_vars, resolve_vars>>

(***************************************************************************)
(* Specifications.                                                         *)
(***************************************************************************)

InitSpecFetch ==
    /\ fetch \in [fn : FetchFns, args : FetchArgs]
    /\ call = NewCall(fetch.fn, fetch.args)
    /\ sent = <<>>
    /\ ResolveIdle
    /\ ConvIdle

InitSpecResolve ==
    /\ FetchIdle
    /\ ResolveIdle
    /\ ConvIdle

InitSpecConv ==
    /\ FetchIdle
    /\ ResolveIdle
    /\ conv \in [called : ConvFns, raw_nodes : RawNodeArgs, project_id : {"p1"}]
    /\ tasks = <<>>
    /\ nsent = <<>>
    /\ conv_pc = "called"
    /\ image_nodes = <<>>
    /\ conv_ret = NoOutcome

NextFetch ==
    \/ FetchSend
    \/ FetchReceive
    \/ FetchWake

NextResolve ==
    \/ ResolveProject
    \/ ResolvePipeline
    \/ ResolveProjectAndPipeline
    \/ ResolveRetriever
    \/ ResolveNext

NextConv ==
    \/ ConvShortCircuit
    \/ ConvDelegate
    \/ ConvBegin
    \/ SyncSend
    \/ SyncReceive
    \/ SyncWake
    \/ \E i \in 1..N : JobStart(i)
    \/ \E i \in 1..N : JobReceive(i)
    \/ \E i \in 1..N : JobWake(i)
    \/ GatherRaise
    \/ GatherDone

SpecFetch == InitSpecFetch /\ [][NextFetch]_vars
SpecResolve == InitSpecResolve /\ [][NextResolve]_vars
SpecConv == InitSpecConv /\ [][NextConv]_vars

(***************************************************************************)
(* Properties of the retry policy and the asset fetcher (SpecFetch).       *)
(***************************************************************************)

Is2xx(o) == o.kind = "response" /\ o.status_code \in 200..299
Is5xx(o) == o.kind = "response" /\ o.status_code \in 500..599

\* Requests sent so far: one per answer received, and the one in flight.
Sends == Len(sent) + (IF call.pc = "awaiting" THEN 1 ELSE 0)

Ended == call.pc \in {"returned", "raised"}

\* The ApiError a fetch function raises for the response o.
ErrorOf(o) == ApiError(o.status_code, ResponseText(o.content))

\* C1: a fetch call sends at most 5 requests; when every attempt gets a 5xx
\* response the call ends after exactly 5 attempts, raising the last
\* attempt's own ApiError (its status and body, not wrapped); when attempt k
\* gets a 2xx response the call returns that response's body after exactly
\* k attempts.
C1_RetryBound ==
    /\ Sends <= 5
    /\ (Ended /\ \A i \in 1..Len(sent) : Is5xx(sent[i])) =>
          /\ Len(sent) = 5
          /\ call.pc = "raised"
          /\ call.outcome = Raised(ErrorOf(sent[5]))
    /\ \A k \in 1..Len(sent) :
          Is2xx(sent[k]) =>
             /\ k <= 5
             /\ Len(sent) = k
             /\ call.pc = "returned"
             /\ call.outcome = Returned(sent[k].content)

\* Five 5xx responses in a row, and the call has raised.
C1_Witness ==
    /\ call.pc = "raised"
    /\ Len(sent) = 5
    /\ \A i \in 1..5 : Is5xx(sent[i])
    /\ sent[4] # sent[5]

\* An outcome of send whose error carries a status code in 500..599.
Carries5xx(o) ==
    \/ Is5xx(o)
    \/ /\ o.kind = "exception"
       /\ o.exc.type = "HTTPStatusError"
       /\ o.exc.status_code \in 500..599

\* Attempt i is followed by another attempt: a later request was sent, or
\* the call is on its way to the next one.
FollowedByAnother(i) ==
    \/ i < Len(sent)
    \/ i = Len(sent) /\ call.pc \in {"sleeping", "ready", "awaiting"}

\* C2: a failed attempt is followed by another one exactly when its error
\* carries a status in 500..599 and fewer than 5 attempts have been made; a
\* response whose status is outside 200..299 and 500..599 ends the call at
\* once (no further send; one send in all when it answers the first
\* attempt) with an ApiError of that status and body text, and an exception
\* that is neither ApiError nor HTTPStatusError ends it at once too.
C2_RetryOnlyOn5xx ==
    /\ \A i \in 1..Len(sent) :
          ~Is2xx(sent[i]) =>
             (FollowedByAnother(i) <=> (Carries5xx(sent[i]) /\ i < 5))
    /\ \A i \in 1..Len(sent) :
          (sent[i].kind = "response" /\ ~Is2xx(sent[i]) /\ ~Is5xx(sent[i])) =>
             /\ Len(sent) = i
             /\ Sends = i
             /\ call.pc = "raised"
             /\ call.outcome = Raised(ErrorOf(sent[i]))
    /\ \A i \in 1..Len(sent) :
          (/\ sent[i].kind = "exception"
           /\ sent[i].exc.type \notin {"ApiError", "HTTPStatusError"}) =>
             /\ Len(sent) = i
             /\ Sends = i
             /\ call.pc = "raised"
             /\ call.outcome = Raised(sent[i].exc)

\* A first response with status 600: the call has raised after one send.
C2_Witness ==
    /\ Len(sent) = 1
    /\ sent[1].kind = "response"
    /\ sent[1].status_code = 600
    /\ call.pc = "raised"
    /\ call.attempt_number = 1

(***************************************************************************)
(* Properties of the entity resolver (SpecResolve).                        *)
(***************************************************************************)

ListApis == {"list_projects", "search_pipelines", "list_retrievers"}

NoListCall == \A i \in 1..Len(remote_calls) : remote_calls[i].api \notin ListApis

GetProjectCall(id) == [api |-> "get_project", project_id |-> id]
GetPipelineCall(id) == [api |-> "get_pipeline", pipeline_id |-> id]
GetRetrieverCall(id, project_id) ==
    [api |-> "get_retriever", retriever_id |-> id, project_id |-> project_id]

\* The statement of C3 as the spec words it: with an id supplied (here even
\* only a non-empty one), the one remote call is the get-by-id call for that
\* id, whatever the other arguments, the persisted flag included.
C3_AsStated ==
    /\ (res_call.fn = "resolve_project" /\ Truthy(res_call.project_id)) =>
          remote_calls = <<GetProjectCall(res_call.project_id)>>
    /\ (res_call.fn = "resolve_pipeline" /\ Truthy(res_call.pipeline_id)) =>
          remote_calls = <<GetPipelineCall(res_call.pipeline_id)>>
    /\ (res_call.fn = "resolve_retriever" /\ Truthy(res_call.retriever_id)) =>
          remote_calls = <<GetRetrieverCall(res_call.retriever_id,
                                            res_call.project.id)>>

\* C3 (amended): with an explicit id supplied no list/search call is made,
\* whatever the other arguments; the one remote call is the get-by-id call
\* for that id and a returned entity carries that id, for a project or a
\* pipeline id other than None and for a non-empty retriever id with
\* persisted = True; with persisted = False resolve_retriever makes no
\* remote call at all.  In resolve_project_and_pipeline a pipeline id makes
\* get_pipeline the first call and rules out every list/search call.
C3_IdBeforeName ==
    /\ (res_call.fn = "resolve_project" /\ res_call.project_id # None) =>
          /\ remote_calls = <<GetProjectCall(res_call.project_id)>>
          /\ res_ret.kind = "return" => res_ret.value.id = res_call.project_id
    /\ (res_call.fn = "resolve_pipeline" /\ res_call.pipeline_id # None) =>
          /\ remote_calls = <<GetPipelineCall(res_call.pipeline_id)>>
          /\ res_ret.kind = "return" => res_ret.value.id = res_call.pipeline_id
    /\ (res_call.fn = "resolve_retriever" /\ Truthy(res_call.retriever_id)) =>
          IF res_call.persisted
          THEN /\ remote_calls = <<GetRetrieverCall(res_call.retriever_id,
                                                    res_call.project.id)>>
               /\ res_ret.kind = "return" =>
                     res_ret.value.id = res_call.retriever_id
          ELSE remote_calls = <<>>
    /\ (res_call.fn = "resolve_project_and_pipeline"
        /\ res_call.pipeline_id # None) =>
          /\ NoListCall
          /\ remote_calls[1] = GetPipelineCall(res_call.pipeline_id)

\* resolve_retriever was given an id and a name, persisted = True, and
\* returned the retriever fetched by id.
C3_Witness ==
    /\ res_call.fn = "resolve_retriever"
    /\ res_call.persisted
    /\ res_call.retriever_id = "r1"
    /\ res_call.retriever_name = "n1"
    /\ res_ret.kind = "return"

\* C4: in resolve_project_and_pipeline with a pipeline id, the remote calls
\* are get_pipeline(pipeline_id) and then get_project(the fetched pipeline's
\* project_id), nothing else, and the project returned has that id,
\* whatever project id, project name and organization id were given; with
\* no pipeline id the project is resolved first and the pipeline is then
\* searched by name within the resolved project's id.
C4_PipelineIdDecidesProject ==
    res_call.fn = "resolve_project_and_pipeline" =>
       IF res_call.pipeline_id # None
       THEN /\ remote_calls[1] = GetPipelineCall(res_call.pipeline_id)
            /\ Len(remote_calls) <= 2
            /\ Len(remote_calls) = 2 =>
                  remote_calls[2] = GetProjectCall(res_call.fetched.project_id)
            /\ res_ret.kind = "return" =>
                  /\ Len(remote_calls) = 2
                  /\ res_ret.value[1].id = res_call.fetched.project_id
                  /\ res_ret.value[2] = Pipeline(res_call.pipeline_id,
                                                 res_call.fetched.name,
                                                 res_call.fetched.project_id)
       ELSE /\ remote_calls[1] =
                  (IF res_call.project_id # None
                   THEN GetProjectCall(res_call.project_id)
                   ELSE [api |-> "list_projects",
                         project_name |-> res_call.project_name,
                         organization_id |-> res_call.organization_id])
            /\ Len(remote_calls) <= 2
            /\ Len(remote_calls) = 2 =>
                  remote_calls[2] =
                     [api |-> "search_pipelines",
                      project_id |-> (IF res_call.project_id # None
                                      THEN res_call.project_id
                                      ELSE res_call.listed_projects[1].id),
                      pipeline_name |-> res_call.pipeline_name,
                      pipeline_type |-> "MANAGED"]
            /\ res_ret.kind = "return" => Len(remote_calls) = 2

\* A pipeline id and a different project id were given; the project
\* returned is the pipeline's.
C4_Witness ==
    /\ res_call.fn = "resolve_project_and_pipeline"
    /\ res_call.pipeline_id = "pl1"
    /\ res_call.project_id = "p1"
    /\ res_call.project_name = "n1"
    /\ res_ret.kind = "return"
    /\ res_ret.value[1].id = "p2"

\* The listed retrievers whose name is exactly the one asked for.
NameMatches ==
    {i \in 1..Len(res_call.listed) :
        res_call.listed[i].name = res_call.retriever_name}

\* The statement of C5 as the spec words it: every resolve call ends by
\* returning one entity or by raising, never by returning an absence or one
\* of several candidates.
C5_AsStated ==
    /\ res_call.fn \in {"resolve_project", "resolve_pipeline", "resolve_retriever"} =>
          \/ res_ret.kind = "raise"
          \/ res_ret.kind = "return" /\ res_ret.value # NoneObj
    /\ (res_call.fn = "resolve_retriever" /\ res_ret.kind = "return"
        /\ remote_calls # <<>> /\ remote_calls[1].api = "list_retrievers") =>
          Cardinality(NameMatches) <= 1

\* C5 (amended): resolve_project, resolve_pipeline and
\* resolve_project_and_pipeline end by returning exactly one entity (a pair
\* of them), the only one listed when a listing was consulted, or by
\* raising (the remote error of a get-by-id, a ValueError for no or several
\* matches, an AttributeError when resolve_pipeline gets neither an id nor
\* a project).  resolve_retriever with persisted = True and no non-empty id
\* returns None when no non-empty name is given or no listed retriever has
\* exactly that name, and the first listed retriever with exactly that name
\* otherwise, also when several have it; it raises only the remote error of
\* get_retriever.
C5_OneEntityOrFailure ==
    /\ res_call.fn = "resolve_project" =>
          \/ res_ret.kind = "raise"
             /\ res_ret.exc.type \in {"ApiError", "ValueError"}
          \/ /\ res_ret.kind = "return"
             /\ res_ret.value # NoneObj
             /\ res_call.project_id = None =>
                   res_call.listed = <<res_ret.value>>
    /\ res_call.fn = "resolve_pipeline" =>
          \/ res_ret.kind = "raise"
             /\ res_ret.exc.type \in {"ApiError", "ValueError", "AttributeError"}
          \/ /\ res_ret.kind = "return"
             /\ res_ret.value # NoneObj
             /\ res_call.pipeline_id = None =>
                   res_call.listed = <<res_ret.value>>
    /\ res_call.fn = "resolve_project_and_pipeline" =>
          \/ res_ret.kind = "raise"
             /\ res_ret.exc.type \in {"ApiError", "ValueError"}
          \/ /\ res_ret.kind = "return"
             /\ Len(res_ret.value) = 2
             /\ res_ret.value[1] # NoneObj
             /\ res_ret.value[2] # NoneObj
             /\ res_call.pipeline_id = None =>
                   res_call.listed = <<res_ret.value[2]>>
             /\ (res_call.pipeline_id = None /\ res_call.project_id = None) =>
                   res_call.listed_projects = <<res_ret.value[1]>>
    /\ (res_call.fn = "resolve_retriever" /\ res_call.persisted
        /\ ~Truthy(res_call.retriever_id)) =>
          /\ res_ret.kind = "return"
          /\ IF Truthy(res_call.retriever_name) /\ NameMatches # {}
             THEN \E i \in NameMatches :
                     /\ res_ret.value = res_call.listed[i]
                     /\ \A j \in NameMatches : i <= j
             ELSE res_ret.value = NoneObj
    /\ (res_call.fn = "resolve_retriever" /\ res_ret.kind = "raise") =>
          /\ res_ret.exc = NotFound
          /\ res_call.persisted
          /\ Truthy(res_call.retriever_id)

\* resolve_retriever listed two retrievers of the name asked for and
\* returned the first.
C5_Witness ==
    /\ res_call.fn = "resolve_retriever"
    /\ res_call.persisted
    /\ Cardinality(NameMatches) = 2
    /\ res_ret.kind = "return"
    /\ res_ret.value = res_call.listed[1]
    /\ res_call.listed[1] # res_call.listed[2]

\* A message (a sequence of its parts) contains the text t.
Contains(message, t) == \E i \in 1..Len(message) : message[i] = t

\* C6: resolving a project (no id) or a pipeline (no id, within a project)
\* by name returns the single listed match when the listing has exactly one
\* element, raises a ValueError containing the name when it has none, and
\* raises a ValueError naming the ambiguity when it has two or more.
C6_NameLookup ==
    /\ (res_call.fn = "resolve_project" /\ res_call.project_id = None) =>
          /\ Len(res_call.listed) = 1 => res_ret = Returned(res_call.listed[1])
          /\ Len(res_call.listed) = 0 =>
                /\ res_ret.kind = "raise"
                /\ res_ret.exc.type = "ValueError"
                /\ res_ret.exc.message[1] = "No project found with name "
                /\ Contains(res_ret.exc.message, Str(res_call.project_name))
          /\ Len(res_call.listed) >= 2 =>
                /\ res_ret.kind = "raise"
                /\ res_ret.exc.type = "ValueError"
                /\ res_ret.exc.message[1] = "Multiple projects found with name "
                /\ Contains(res_ret.exc.message, Str(res_call.project_name))
    /\ (res_call.fn = "resolve_pipeline" /\ res_call.pipeline_id = None
        /\ res_call.project # NoneObj) =>
          /\ Len(res_call.listed) = 1 => res_ret = Returned(res_call.listed[1])
          /\ Len(res_call.listed) = 0 =>
                /\ res_ret.kind = "raise"
                /\ res_ret.exc.type = "ValueError"
                /\ res_ret.exc.message[1] = "Unknown index name "
                /\ Contains(res_ret.exc.message, Str(res_call.pipeline_name))
          /\ Len(res_call.listed) >= 2 =>
                /\ res_ret.kind = "raise"
                /\ res_ret.exc.type = "ValueError"
                /\ res_ret.exc.message[1] = "Multiple pipelines found with name "
                /\ Contains(res_ret.exc.message, Str(res_call.pipeline_name))

\* A pipeline search by name answered with two pipelines, and the call
\* raised.
C6_Witness ==
    /\ res_call.fn = "resolve_pipeline"
    /\ res_call.pipeline_id = None
    /\ res_call.pipeline_name = "n1"
    /\ Len(res_call.listed) = 2
    /\ res_ret.kind = "raise"

\* C8: resolve_retriever with persisted = False makes no remote call,
\* whatever id or name is given, and returns a retriever with a generated
\* id, the name asked for, the project's id and no pipelines; the ids
\* returned by any two such calls differ.
C8_EphemeralRetriever ==
    /\ (res_call.fn = "resolve_retriever" /\ ~res_call.persisted) =>
          /\ remote_calls = <<>>
          /\ res_ret.kind = "return"
          /\ res_ret.value.id \in UuidPool
          /\ res_ret.value.id = ephemeral[Len(ephemeral)]
          /\ res_ret.value.name = res_call.retriever_name
          /\ res_ret.value.project_id = res_call.project.id
          /\ res_ret.value.pipelines = <<>>
    /\ \A i, j \in 1..Len(ephemeral) : i # j => ephemeral[i] # ephemeral[j]

\* Two non-persisted calls were made, the second with an id and a name.
C8_Witness ==
    /\ Len(ephemeral) = 2
    /\ res_call.fn = "resolve_retriever"
    /\ ~res_call.persisted
    /\ res_call.retriever_id = "r1"
    /\ res_call.retriever_name = "n1"

(***************************************************************************)
(* Properties of the result adapter (SpecConv).                            *)
(***************************************************************************)

\* The value of a base64 character, and the bytes a base64 string stands for.
B64Value(c) == (CHOOSE i \in 1..64 : Alphabet[i] = c) - 1

RECURSIVE b64decode(_)
b64decode(t) ==
    IF Len(t) = 0 THEN <<>>
    ELSE LET v1 == B64Value(t[1])
             v2 == B64Value(t[2])
             rest == b64decode(SubSeq(t, 5, Len(t)))
         IN  IF t[3] = "=" THEN <<v1 * 4 + (v2 \div 16)>>
             ELSE IF t[4] = "="
             THEN LET n == (v1 * 4096 + v2 * 64 + B64Value(t[3])) \div 4
                  IN  <<n \div 256, n % 256>>
             ELSE LET n == v1 * 262144 + v2 * 4096 + B64Value(t[3]) * 64
                           + B64Value(t[4])
                  IN  <<n \div 65536, (n \div 256) % 256, n % 256>> \o rest

Records == conv.raw_nodes.items

\* C7: an asynchronous conversion of n records whose fetches all succeed
\* returns n scored nodes, and the node at position i carries the file id,
\* page index and score of record i and, base64-encoded, the bytes returned
\* by the fetch made for record i, whatever the order the fetches complete
\* in.
C7_OrderPreserved ==
    (conv.called # "none" /\ conv.called \in AsyncConvFns /\ conv_pc = "returned"
     /\ ~Falsy(conv.raw_nodes)) =>
       /\ \A i \in 1..N : tasks[i].pc = "returned"
       /\ Len(conv_ret.value) = N
       /\ \A i \in 1..N :
             LET out == conv_ret.value[i]
             IN  /\ out.node.metadata.file_id = Records[i].file_id
                 /\ out.node.metadata.page_index = Records[i].page_index
                 /\ out.score = Records[i].score
                 /\ tasks[i].args.file_id = Records[i].file_id
                 /\ tasks[i].args.page_index = Records[i].page_index
                 /\ tasks[i].request.path[2] = Records[i].file_id
                 /\ tasks[i].request.path[4] = Records[i].page_index
                 /\ b64decode(out.node.image) = tasks[i].outcome.value

\* Two different records were converted concurrently, the first record's
\* fetch needed more attempts than the second's, and the two fetched
\* different bytes.
C7_Witness ==
    /\ conv.called # "none"
    /\ conv.called = "apage_screenshot_nodes_to_node_with_score"
    /\ conv_pc = "returned"
    /\ N = 2
    /\ Records[1].file_id # Records[2].file_id
    /\ nsent[1] = 3
    /\ nsent[2] = 1
    /\ tasks[1].outcome.value # tasks[2].outcome.value

\* C9: each of the six conversion functions, called with None or with an
\* empty list, returns an empty list and makes no fetch call: no request is
\* built or sent.
C9_EmptyInput ==
    (conv.called # "none" /\ (conv.raw_nodes.is_none \/ Len(conv.raw_nodes.items) = 0)) =>
       /\ conv_pc \in {"called", "returned"}
       /\ conv_pc = "returned" => conv_ret = Returned(<<>>)
       /\ tasks = <<>>
       /\ nsent = <<>>

\* A legacy alias was called with None and has returned.
C9_Witness ==
    /\ conv.called # "none"
    /\ conv.called = "aimage_nodes_to_node_with_score"
    /\ conv.raw_nodes.is_none
    /\ conv_pc = "returned"

RECURSIVE SumTo(_, _)
SumTo(f, n) == IF n = 0 THEN 0 ELSE f[n] + SumTo(f, n - 1)

FanOut == conv.called # "none" /\ conv.called \in AsyncConvFns
          /\ conv_pc \in {"gathering", "raised", "returned"}

\* In a step, a fetch that changes leaves every other fetch as it was: its
\* state (attempt number, result) and the number of requests sent for it.
OneFetchAtATime ==
    (FanOut /\ DOMAIN tasks' = DOMAIN tasks) =>
       \A i, j \in DOMAIN tasks :
          (i # j /\ (tasks'[i] # tasks[i] \/ nsent'[i] # nsent[i])) =>
             (tasks'[j] = tasks[j] /\ nsent'[j] = nsent[j])

\* C10: during an asynchronous fan-out a retry of one record's fetch changes
\* neither the attempt count nor the result of another record's fetch,
\* under every interleaving; each fetch sends at most 5 requests, the
\* conversion at most 5 * n, and the attempt number of a fetch is the
\* number of requests sent for it.
C10_LocalRetries ==
    /\ [](FanOut =>
            /\ \A i \in 1..N :
                  /\ nsent[i] <= 5
                  /\ tasks[i].attempt_number =
                        (IF tasks[i].pc = "pending" THEN 1 ELSE nsent[i])
            /\ SumTo(nsent, N) <= 5 * N)
    /\ [][OneFetchAtATime]_vars

\* One record's fetch used all five attempts and raised while the other's
\* returned at its first attempt.
C10_Witness ==
    /\ FanOut
    /\ N = 2
    /\ tasks[1].pc = "raised"
    /\ nsent[1] = 5
    /\ tasks[2].pc = "returned"
    /\ nsent[2] = 1

====
